---- MODULE Spec2Model ----
(***************************************************************************)
(* State-machine model of src_cpp/elfgames/go/train/ctrl_selfplay.h:       *)
(* ResignThresholdCalculator, SelfPlayRecord and SelfPlaySubCtrl,          *)
(* and of src_cpp/elf/distri/feature.h: Stats, SharedMemRemote and         *)
(* BatchReceiver.                                                          *)
(*                                                                         *)
(* Floats are fixed-point integers in units of 0.01 (One == 100 stands for *)
(* 1.0f), so the default maxDelta 0.01 of updateThreshold is one unit.     *)
(* Rounding of float arithmetic is not modelled.                           *)
(***************************************************************************)
EXTENDS Integers, Sequences, FiniteSets, TLC

VARIABLES
    options_,                   \* GameOptionsTrain, fixed at construction
    curr_ver_,                  \* SelfPlaySubCtrl::curr_ver_
    perfs_,                     \* SelfPlaySubCtrl::perfs_ : version -> SelfPlayRecord
    resignThresholdCalculator_, \* SelfPlaySubCtrl::resignThresholdCalculator_
    total_selfplay_,            \* SelfPlaySubCtrl::total_selfplay_
    aborted,                    \* an assert() of the code has failed
    call,                       \* the last completed call: its name, argument, result
    mutex_,                     \* SelfPlaySubCtrl::mutex_ : the thread holding it
    threads,                    \* thread -> the controller call it is inside
    smem,                       \* the SharedMemRemote slots of the pool
    consumed,                   \* slot -> the messages its consumer has popped
    replies,                    \* the replies handed to the transport, in order
    submitted,                  \* connection -> number of messages it has sent
    stats_                      \* BatchReceiver::stats_

ctrlVars == <<options_, curr_ver_, perfs_, resignThresholdCalculator_,
              total_selfplay_, aborted, call>>

lockVars == <<mutex_, threads>>

batchVars == <<smem, consumed, replies, submitted, stats_>>

vars == <<options_, curr_ver_, perfs_, resignThresholdCalculator_,
          total_selfplay_, aborted, call, mutex_, threads,
          smem, consumed, replies, submitted, stats_>>

\* No thread is inside the controller and nobody holds its mutex.
NoThread == 0

NoThreads == mutex_ = NoThread /\ threads = << >>

\* No slot has been allocated and no connection has sent anything.
NoSlots ==
    /\ smem = << >> /\ consumed = << >>
    /\ replies = << >> /\ submitted = << >>
    /\ stats_ = [ stats_ |-> << >>, count_ |-> 0, sum_batchsize_ |-> 0,
                  total_batchsize_ |-> 0, total_release_batchsize_ |-> 0 ]

(***************************************************************************)
(* Fixed point and small helpers.                                          *)
(***************************************************************************)
One == 100

Min2(a, b) == IF a < b THEN a ELSE b

Max2(a, b) == IF a > b THEN a ELSE b

Abs(x) == IF x < 0 THEN -x ELSE x

SetMin(S) == CHOOSE x \in S : \A y \in S : x <= y

(***************************************************************************)
(* ResignThresholdCalculator                                               *)
(***************************************************************************)

\* The constructor's three assertions (lines 44-48); falsePositiveTarget is
\* the rational fp[1] / fp[2].
CalcCtorAccepts(histSize, fp, minThreshold, maxThreshold) ==
    /\ histSize > 0
    /\ fp[1] > 0 /\ fp[1] < fp[2]
    /\ 0 <= minThreshold /\ minThreshold <= maxThreshold
    /\ maxThreshold <= 2 * One

\* The calculator right after construction.
NewCalculator(histSize, fp, initialThreshold, minThreshold, maxThreshold) ==
    [ histSize_            |-> histSize,
      falsePositiveTarget_ |-> fp,
      curThreshold_        |-> initialThreshold,
      minThreshold_        |-> minThreshold,
      maxThreshold_        |-> maxThreshold,
      numGamesFed_         |-> 0,
      numGamesFedBlackWin_ |-> 0,
      winnerMinValues_     |-> << >>,
      nr_stats_            |-> [fp |-> 0, n |-> 0, blackWin |-> 0,
                                total_n |-> 0, totalBlackWin |-> 0] ]

\* NRItem::NRItem: the minimum of the winner's own values (even plies when
\* black won, odd plies when white won; C++ index i is TLA+ index i + 1).
NRItem(request, result) ==
    LET blackWin == result.reward > 0
        first    == IF blackWin THEN 0 ELSE 1
        plies    == { i \in 0 .. Len(result.values) - 1 :
                        i >= first /\ (i - first) % 2 = 0 }
        value(i) == IF blackWin THEN One + result.values[i + 1]
                                ELSE One - result.values[i + 1]
        minValue == SetMin({2 * One} \cup { value(i) : i \in plies })
    IN  [ minValue |-> minValue,
          fp       |-> request.resign_thres > minValue,
          blackWin |-> blackWin ]

\* changeStat with the eviction (delta < 0) leaving the fp count alone.
changeStatKeepsFp(item, stats, delta) ==
    [ stats EXCEPT !.n        = @ + delta,
                   !.fp       = IF item.fp /\ delta > 0 THEN @ + delta ELSE @,
                   !.blackWin = IF item.blackWin THEN @ + delta ELSE @ ]

\* NRItem::changeStat
changeStat(item, stats, delta) ==
    [ stats EXCEPT !.n        = @ + delta,
                   !.fp       = IF item.fp THEN @ + delta ELSE @,
                   !.blackWin = IF item.blackWin THEN @ + delta ELSE @ ]

\* NRStats::feed
NRStatsFeed(stats, value) ==
    [ stats EXCEPT !.total_n       = @ + 1,
                   !.totalBlackWin = IF value > 0 THEN @ + 1 ELSE @ ]

\* The while loop of feedWinnerMinvalue: evict the oldest while the window is
\* full, taking each evicted item out of the aggregate.
RECURSIVE EvictWhileFull(_)
EvictWhileFull(c) ==
    IF Len(c.winnerMinValues_) >= c.histSize_
    THEN EvictWhileFull(
           [ c EXCEPT !.nr_stats_ = changeStat(Head(c.winnerMinValues_), @, -1),
                      !.winnerMinValues_ = Tail(@) ])
    ELSE c

\* ResignThresholdCalculator::feedWinnerMinvalue
feedWinnerMinvalue(c, item) ==
    LET e == EvictWhileFull(c)
    IN  [ e EXCEPT !.winnerMinValues_ = Append(@, item),
                   !.nr_stats_ = changeStat(item, @, 1) ]

\* ResignThresholdCalculator::feed
CalcFeed(c, request, result) ==
    LET counted == [ c EXCEPT !.numGamesFed_ = @ + 1,
                              !.numGamesFedBlackWin_ =
                                  IF result.reward > 0 THEN @ + 1 ELSE @ ]
    IN  IF ~result.never_resign
        THEN counted
        ELSE feedWinnerMinvalue(
               [ counted EXCEPT !.nr_stats_ = NRStatsFeed(@, result.reward) ],
               NRItem(request, result))

\* static_cast<size_t>(falsePositiveTarget_ * winnerMinValues_.size())
Position(c) ==
    (c.falsePositiveTarget_[1] * Len(c.winnerMinValues_))
        \div c.falsePositiveTarget_[2]

\* The selection one place too low: the element below index k.
NthElementBelow(w, k) ==
    CHOOSE v \in { w[i].minValue : i \in 1 .. Len(w) } :
        /\ Cardinality({ i \in 1 .. Len(w) : w[i].minValue < v }) <= k - 1
        /\ Cardinality({ i \in 1 .. Len(w) : w[i].minValue <= v }) > k - 1

\* What std::nth_element leaves at index k (0-based): the k-th smallest
\* minValue of the window, duplicates counted.
NthElement(w, k) ==
    CHOOSE v \in { w[i].minValue : i \in 1 .. Len(w) } :
        /\ Cardinality({ i \in 1 .. Len(w) : w[i].minValue < v }) <= k
        /\ Cardinality({ i \in 1 .. Len(w) : w[i].minValue <= v }) > k

\* The early return taken only for the low boundary.
TooSmallLowOnly(c) == Position(c) < 2

\* The early return of updateThreshold (line 73).
TooSmall(c) ==
    Position(c) < 2 \/ Position(c) + 2 >= Len(c.winnerMinValues_)

\* Lines 93-96: rate limit to old +- maxDelta, then clamp to [min, max].
ClampThreshold(c, candidate, maxDelta) ==
    LET a == Min2(candidate, c.curThreshold_ + maxDelta)
        b == Max2(a, c.curThreshold_ - maxDelta)
        d == Max2(b, c.minThreshold_)
    IN  Min2(d, c.maxThreshold_)

\* ResignThresholdCalculator::updateThreshold: the calculator afterwards, the
\* value returned, and whether the assertion of line 89 failed.
updateThreshold(c, maxDelta) ==
    IF TooSmall(c)
    THEN [ calc |-> c, ret |-> c.curThreshold_, failed |-> FALSE ]
    ELSE LET candidate == NthElement(c.winnerMinValues_, Position(c))
         IN  IF candidate < 0
             THEN [ calc |-> [ c EXCEPT !.curThreshold_ = candidate ],
                    ret |-> candidate, failed |-> TRUE ]
             ELSE LET t == ClampThreshold(c, candidate, maxDelta)
                  IN  [ calc |-> [ c EXCEPT !.curThreshold_ = t ],
                        ret |-> t, failed |-> FALSE ]

\* ResignThresholdCalculator::getThreshold
getThreshold(c) == c.curThreshold_

(***************************************************************************)
(* SelfPlayRecord                                                          *)
(***************************************************************************)

\* SelfPlayRecord::SelfPlayRecord and the member initialisers (lines 325-331).
NewSelfPlayRecord(ver) ==
    [ ver_ |-> ver,
      records_ |-> << >>,
      black_win_ |-> 0, white_win_ |-> 0,
      n_black_resign_ |-> 0, n_white_resign_ |-> 0,
      move0_100 |-> 0, move100_200 |-> 0, move200_300 |-> 0, move300_up |-> 0,
      counter_ |-> 0,
      last_counter_shown_ |-> 0,
      num_weight_update_ |-> 0,
      resign_threshold_ |-> 0 ]

\* RecordBuffer::feed (ctrl_utils.h): append to the pending buffer.
RecordBufferFeed(records, r) == Append(records, r)

\* RecordBuffer::saveCurrent then RecordBuffer::clear (ctrl_utils.h): the
\* pending records go to the durable store and the buffer is emptied.
RecordBufferSaveAndClear(records) == << >>

\* SelfPlayRecord::feed
RecFeed(rec, request, result, r) ==
    LET didBlackWin == result.reward > 0
        whiteResign == 10 * Abs(result.reward - One) < One
        blackResign == ~whiteResign /\ 10 * Abs(result.reward + One) < One
        counter     == rec.counter_ + 1
    IN  [ rec EXCEPT
            !.black_win_ = IF didBlackWin THEN @ + 1 ELSE @,
            !.white_win_ = IF didBlackWin THEN @ ELSE @ + 1,
            !.n_white_resign_ = IF whiteResign THEN @ + 1 ELSE @,
            !.n_black_resign_ = IF blackResign THEN @ + 1 ELSE @,
            !.counter_ = counter,
            !.records_ = RecordBufferFeed(@, r),
            !.move0_100   = IF result.num_move < 100 THEN @ + 1 ELSE @,
            !.move100_200 = IF result.num_move >= 100 /\ result.num_move < 200
                            THEN @ + 1 ELSE @,
            !.move200_300 = IF result.num_move >= 200 /\ result.num_move < 300
                            THEN @ + 1 ELSE @,
            !.move300_up  = IF result.num_move >= 300 THEN @ + 1 ELSE @,
            !.last_counter_shown_ =
                IF counter - @ >= 100 THEN counter ELSE @ ]

\* SelfPlayRecord::n
RecN(rec) == rec.counter_

\* is_check_point without the first checkpoint at selfplay_init_num.
is_check_point_past_init_only(rec, options) ==
    IF options.selfplay_init_num > 0 /\ options.selfplay_update_num > 0
    THEN /\ rec.counter_ > options.selfplay_init_num
         /\ (rec.counter_ - options.selfplay_init_num)
                % options.selfplay_update_num = 0
    ELSE rec.counter_ > 0 /\ rec.counter_ % 1000 = 0

\* SelfPlayRecord::is_check_point
is_check_point(rec, options) ==
    IF options.selfplay_init_num > 0 /\ options.selfplay_update_num > 0
    THEN \/ rec.counter_ = options.selfplay_init_num
         \/ /\ rec.counter_ > options.selfplay_init_num
            /\ (rec.counter_ - options.selfplay_init_num)
                   % options.selfplay_update_num = 0
    ELSE rec.counter_ > 0 /\ rec.counter_ % 1000 = 0

\* checkAndSave starting the episode count afresh with the emptied buffer.
checkAndSaveResetsCounter(rec, options) ==
    IF is_check_point(rec, options)
    THEN [ rec |-> [ rec EXCEPT !.records_ = RecordBufferSaveAndClear(@),
                                !.counter_ = 0 ],
           ret |-> TRUE ]
    ELSE [ rec |-> rec, ret |-> FALSE ]

\* SelfPlayRecord::checkAndSave: the record afterwards and the value returned.
checkAndSave(rec, options) ==
    IF is_check_point(rec, options)
    THEN [ rec |-> [ rec EXCEPT !.records_ = RecordBufferSaveAndClear(@) ],
           ret |-> TRUE ]
    ELSE [ rec |-> rec, ret |-> FALSE ]

\* needWaitForMoreSample forgetting the quota the weight updates open.
RecNeedWaitInitialOnly(rec, options) ==
    IF options.selfplay_init_num <= 0 THEN FALSE
    ELSE rec.counter_ < options.selfplay_init_num

\* SelfPlayRecord::needWaitForMoreSample
RecNeedWaitForMoreSample(rec, options) ==
    IF options.selfplay_init_num <= 0 THEN FALSE
    ELSE IF rec.counter_ < options.selfplay_init_num THEN TRUE
    ELSE IF options.selfplay_update_num <= 0 THEN FALSE
    ELSE rec.counter_ < options.selfplay_init_num
                          + options.selfplay_update_num * rec.num_weight_update_

\* SelfPlayRecord::notifyWeightUpdate
notifyWeightUpdate(rec) == [ rec EXCEPT !.num_weight_update_ = @ + 1 ]

\* SelfPlayRecord::set_resign_threshold
set_resign_threshold(rec, resign_threshold) ==
    [ rec EXCEPT !.resign_threshold_ = resign_threshold ]

(***************************************************************************)
(* SelfPlaySubCtrl                                                         *)
(***************************************************************************)

\* float maxDelta = 0.01, the default argument of updateThreshold.
DefaultMaxDelta == 1

\* ModelPair::is_selfplay (record.h): the request is tagged as self-play.
is_selfplay(vers) == vers.selfplay

\* What the calls leave in call.
Called(op, arg, ret, aux) == [ op |-> op, arg |-> arg, ret |-> ret, aux |-> aux ]

\* SelfPlaySubCtrl::find_or_null: whether a record exists for ver.
HasRecord(perfs, ver) == ver \in DOMAIN perfs

\* SelfPlaySubCtrl::SelfPlaySubCtrl
CtrlInit(options) ==
    /\ options_ = options
    /\ curr_ver_ = -1
    /\ perfs_ = [ v \in {} |-> NewSelfPlayRecord(v) ]
    /\ resignThresholdCalculator_ =
          NewCalculator(options.resign_target_hist_size,
                        options.resign_target_fp_rate,
                        options.resign_thres,
                        options.resign_thres_lower_bound,
                        options.resign_thres_upper_bound)
    /\ total_selfplay_ = 0
    /\ aborted = FALSE
    /\ call = Called("init", 0, 0, 0)

\* feed with the version compared before the self-play tag is looked at.
FeedResultVersionFirst(request) ==
    IF curr_ver_ # request.vers.black_ver THEN "VERSION_MISMATCH"
    ELSE IF ~is_selfplay(request.vers) THEN "NOT_SELFPLAY"
    ELSE IF ~HasRecord(perfs_, request.vers.black_ver) THEN "NOT_REQUESTED"
    ELSE "FEEDED"

\* The result code of SelfPlaySubCtrl::feed.
FeedResult(request) ==
    IF ~is_selfplay(request.vers) THEN "NOT_SELFPLAY"
    ELSE IF curr_ver_ # request.vers.black_ver THEN "VERSION_MISMATCH"
    ELSE IF ~HasRecord(perfs_, request.vers.black_ver) THEN "NOT_REQUESTED"
    ELSE "FEEDED"

\* feed routing the result to the record of the request's version whenever
\* that record exists, active or not.
FeedRouteByRequest(request, result, r) ==
    /\ ~aborted
    /\ resignThresholdCalculator_' =
          CalcFeed(resignThresholdCalculator_, request, result)
    /\ IF is_selfplay(request.vers) /\ HasRecord(perfs_, request.vers.black_ver)
       THEN LET ver   == request.vers.black_ver
                fed   == RecFeed(perfs_[ver], request, result, r)
                saved == checkAndSave(fed, options_)
            IN  /\ perfs_' = [ perfs_ EXCEPT ![ver] = saved.rec ]
                /\ total_selfplay_' = total_selfplay_ + 1
                /\ call' = Called("feed", request.vers, FeedResult(request),
                                  saved.ret)
       ELSE /\ UNCHANGED <<perfs_, total_selfplay_>>
            /\ call' = Called("feed", request.vers, FeedResult(request), FALSE)
    /\ UNCHANGED <<options_, curr_ver_, aborted>>

\* SelfPlaySubCtrl::feed
Feed(request, result, r) ==
    /\ ~aborted
    /\ resignThresholdCalculator_' =
          CalcFeed(resignThresholdCalculator_, request, result)
    /\ IF FeedResult(request) = "FEEDED"
       THEN LET ver   == request.vers.black_ver
                fed   == RecFeed(perfs_[ver], request, result, r)
                saved == checkAndSave(fed, options_)
            IN  /\ perfs_' = [ perfs_ EXCEPT ![ver] = saved.rec ]
                /\ total_selfplay_' = total_selfplay_ + 1
                /\ call' = Called("feed", request.vers, "FEEDED", saved.ret)
       ELSE /\ UNCHANGED <<perfs_, total_selfplay_>>
            /\ call' = Called("feed", request.vers, FeedResult(request), FALSE)
    /\ UNCHANGED <<options_, curr_ver_, aborted>>

\* find_or_create recomputing the threshold with a maxDelta of 1.0.
CreateRecordWideDelta(ver) ==
    LET u == updateThreshold(resignThresholdCalculator_, One)
    IN  /\ resignThresholdCalculator_' = u.calc
        /\ aborted' = u.failed
        /\ perfs_' = [ v \in DOMAIN perfs_ \cup {ver} |->
                         IF v = ver
                         THEN set_resign_threshold(NewSelfPlayRecord(ver), u.ret)
                         ELSE perfs_[v] ]

\* SelfPlaySubCtrl::find_or_create, for a version that has no record yet:
\* the new record takes the threshold updateThreshold() returns.
CreateRecord(ver) ==
    LET u == updateThreshold(resignThresholdCalculator_, DefaultMaxDelta)
    IN  /\ resignThresholdCalculator_' = u.calc
        /\ aborted' = u.failed
        /\ perfs_' = [ v \in DOMAIN perfs_ \cup {ver} |->
                         IF v = ver
                         THEN set_resign_threshold(NewSelfPlayRecord(ver), u.ret)
                         ELSE perfs_[v] ]

\* setCurrModel switching the version without find_or_create.
SetCurrModelNoCreate(ver) ==
    /\ ~aborted
    /\ IF ver # curr_ver_
       THEN /\ curr_ver_' = ver
            /\ call' = Called("setCurrModel", ver, TRUE, 0)
       ELSE /\ UNCHANGED curr_ver_
            /\ call' = Called("setCurrModel", ver, FALSE, 0)
    /\ UNCHANGED <<options_, perfs_, resignThresholdCalculator_,
                   total_selfplay_, aborted>>

\* setCurrModel giving the version a new record on every switch.
SetCurrModelRecreate(ver) ==
    /\ ~aborted
    /\ IF ver # curr_ver_
       THEN /\ curr_ver_' = ver
            /\ CreateRecord(ver)
            /\ call' = Called("setCurrModel", ver, TRUE, 0)
       ELSE /\ UNCHANGED <<curr_ver_, perfs_, resignThresholdCalculator_, aborted>>
            /\ call' = Called("setCurrModel", ver, FALSE, 0)
    /\ UNCHANGED <<options_, total_selfplay_>>

\* SelfPlaySubCtrl::setCurrModel
SetCurrModel(ver) ==
    /\ ~aborted
    /\ IF ver # curr_ver_
       THEN /\ curr_ver_' = ver
            /\ IF HasRecord(perfs_, ver)
               THEN UNCHANGED <<perfs_, resignThresholdCalculator_, aborted>>
               ELSE CreateRecord(ver)
            /\ call' = Called("setCurrModel", ver, TRUE, 0)
       ELSE /\ UNCHANGED <<curr_ver_, perfs_, resignThresholdCalculator_, aborted>>
            /\ call' = Called("setCurrModel", ver, FALSE, 0)
    /\ UNCHANGED <<options_, total_selfplay_>>

\* needWaitForMoreSample consulting the record of the requested version
\* instead of the active one.
CtrlResultOfRequested(selfplay_ver) ==
    IF selfplay_ver < curr_ver_ THEN "VERSION_OLD"
    ELSE IF ~HasRecord(perfs_, selfplay_ver) THEN "VERSION_INVALID"
    ELSE IF RecNeedWaitForMoreSample(perfs_[selfplay_ver], options_)
         THEN "INSUFFICIENT_SAMPLE"
         ELSE "SUFFICIENT_SAMPLE"

\* The result code of SelfPlaySubCtrl::needWaitForMoreSample.
CtrlResult(selfplay_ver) ==
    IF selfplay_ver < curr_ver_ THEN "VERSION_OLD"
    ELSE IF ~HasRecord(perfs_, curr_ver_) THEN "VERSION_INVALID"
    ELSE IF RecNeedWaitForMoreSample(perfs_[curr_ver_], options_)
         THEN "INSUFFICIENT_SAMPLE"
         ELSE "SUFFICIENT_SAMPLE"

\* SelfPlaySubCtrl::needWaitForMoreSample
NeedWaitForMoreSample(selfplay_ver) ==
    /\ ~aborted
    /\ call' = Called("needWaitForMoreSample", selfplay_ver,
                      CtrlResult(selfplay_ver), 0)
    /\ UNCHANGED <<options_, curr_ver_, perfs_, resignThresholdCalculator_,
                   total_selfplay_, aborted>>

\* SelfPlaySubCtrl::notifyCurrentWeightUpdate; the assertion of line 415
\* fails when the active version has no record.
NotifyCurrentWeightUpdate ==
    /\ ~aborted
    /\ IF HasRecord(perfs_, curr_ver_)
       THEN /\ perfs_' = [ perfs_ EXCEPT ![curr_ver_] = notifyWeightUpdate(@) ]
            /\ UNCHANGED aborted
       ELSE /\ aborted' = TRUE
            /\ UNCHANGED perfs_
    /\ call' = Called("notifyCurrentWeightUpdate", 0, 0, 0)
    /\ UNCHANGED <<options_, curr_ver_, resignThresholdCalculator_,
                   total_selfplay_>>

\* msg->never_resign_prob = 0.1 (line 281), in units of 0.01.
NeverResignProb == 10

\* A Request as the caller hands it to fillInRequest: created fresh for the
\* call (record.h), not yet a wait instruction.
FreshRequest ==
    [ vers |-> [ black_ver |-> -1, white_ver |-> -1, wait |-> FALSE,
                 mcts_opt |-> "unset" ],
      resign_thres |-> 0, never_resign_prob |-> 0, async |-> FALSE ]

\* ModelPair::set_wait (record.h): the request becomes a wait instruction.
set_wait(vers) == [ vers EXCEPT !.wait = TRUE ]

\* SelfPlayRecord::fillInRequest writing the calculator's current threshold
\* instead of the record's own.
RecFillInRequestCurrent(rec, options, msg) ==
    [ msg EXCEPT !.resign_thres = getThreshold(resignThresholdCalculator_),
                 !.never_resign_prob = NeverResignProb,
                 !.async = options.selfplay_async ]

\* SelfPlayRecord::fillInRequest
RecFillInRequest(rec, options, msg) ==
    [ msg EXCEPT !.resign_thres = rec.resign_threshold_,
                 !.never_resign_prob = NeverResignProb,
                 !.async = options.selfplay_async ]

\* fillInRequest that never attaches the version pair.
FilledRequestNoVersion(msg) ==
    IF curr_ver_ < 0
    THEN [ msg EXCEPT !.vers = set_wait(@) ]
    ELSE RecFillInRequest(perfs_[curr_ver_], options_, msg)

\* What SelfPlaySubCtrl::fillInRequest leaves in *msg (lines 431-439); in the
\* else branch the record of the active version exists.
FilledRequest(msg) ==
    IF curr_ver_ < 0
    THEN [ msg EXCEPT !.vers = set_wait(@) ]
    ELSE RecFillInRequest(
             perfs_[curr_ver_], options_,
             [ msg EXCEPT !.vers.black_ver = curr_ver_,
                          !.vers.white_ver = -1,
                          !.vers.mcts_opt = "options_.common.mcts" ])

\* SelfPlaySubCtrl::fillInRequest; the assertion of line 435 fails when the
\* active version has no record.
FillInRequest(msg) ==
    /\ ~aborted
    /\ IF curr_ver_ >= 0 /\ ~HasRecord(perfs_, curr_ver_)
       THEN /\ aborted' = TRUE
            /\ call' = Called("fillInRequest", 0, msg, 0)
       ELSE /\ UNCHANGED aborted
            /\ call' = Called("fillInRequest", 0, FilledRequest(msg), 0)
    /\ UNCHANGED <<options_, curr_ver_, perfs_, resignThresholdCalculator_,
                   total_selfplay_>>

\* SelfPlaySubCtrl::getCurrModel
GetCurrModel ==
    /\ ~aborted
    /\ call' = Called("getCurrModel", 0, curr_ver_, 0)
    /\ UNCHANGED <<options_, curr_ver_, perfs_, resignThresholdCalculator_,
                   total_selfplay_, aborted>>

\* SelfPlaySubCtrl::getNumSelfplayCurrModel
GetNumSelfplayCurrModel ==
    /\ ~aborted
    /\ call' = Called("getNumSelfplayCurrModel", 0,
                      IF HasRecord(perfs_, curr_ver_)
                      THEN RecN(perfs_[curr_ver_]) ELSE 0, 0)
    /\ UNCHANGED <<options_, curr_ver_, perfs_, resignThresholdCalculator_,
                   total_selfplay_, aborted>>

\* std::lock_guard<std::mutex> lock(mutex_) at the head of a public
\* operation: thread t waits until the mutex is free and takes it.
LockGuard(t, op, arg) ==
    /\ threads[t].op = "idle"
    /\ mutex_ = NoThread
    /\ mutex_' = t
    /\ threads' = [ threads EXCEPT ![t] = [ op |-> op, arg |-> arg ] ]
    /\ UNCHANGED ctrlVars

\* The end of the operation of thread t: the lock_guard releases the mutex.
Unlock(t) ==
    /\ mutex_ = t
    /\ mutex_' = NoThread
    /\ threads' = [ threads EXCEPT ![t] = [ op |-> "idle", arg |-> 0 ] ]

\* SelfPlaySubCtrl::getResignThreshold (lines 379-381) takes no lock: thread
\* t starts to read the calculator's threshold, whoever holds the mutex.
BeginGetResignThreshold(t) ==
    /\ threads[t].op = "idle"
    /\ threads' = [ threads EXCEPT ![t] =
                      [ op |-> "getResignThreshold",
                        arg |-> getThreshold(resignThresholdCalculator_) ] ]
    /\ UNCHANGED <<mutex_, ctrlVars>>

\* getResignThreshold returns: without the lock, a write of the threshold
\* that came in between may or may not be what the read saw.
EndGetResignThreshold(t) ==
    /\ threads[t].op = "getResignThreshold"
    /\ ~aborted
    /\ \E ret \in { threads[t].arg, getThreshold(resignThresholdCalculator_) } :
          call' = Called("getResignThreshold", 0, ret,
                         getThreshold(resignThresholdCalculator_))
    /\ threads' = [ threads EXCEPT ![t] = [ op |-> "idle", arg |-> 0 ] ]
    /\ UNCHANGED <<mutex_, options_, curr_ver_, perfs_,
                   resignThresholdCalculator_, total_selfplay_, aborted>>

(***************************************************************************)
(* Direct calls on a ResignThresholdCalculator.                            *)
(***************************************************************************)

\* a call of ResignThresholdCalculator::feed
CalculatorFeed(request, result) ==
    /\ ~aborted
    /\ resignThresholdCalculator_' =
          CalcFeed(resignThresholdCalculator_, request, result)
    /\ call' = Called("calculator.feed", 0, 0, 0)
    /\ UNCHANGED <<options_, curr_ver_, perfs_, total_selfplay_, aborted>>

\* a call of ResignThresholdCalculator::updateThreshold(maxDelta); call.aux
\* keeps the threshold before the call.
UpdateThreshold(maxDelta) ==
    LET u == updateThreshold(resignThresholdCalculator_, maxDelta)
    IN  /\ ~aborted
        /\ resignThresholdCalculator_' = u.calc
        /\ aborted' = u.failed
        /\ call' = Called("updateThreshold", maxDelta, u.ret,
                          resignThresholdCalculator_.curThreshold_)
        /\ UNCHANGED <<options_, curr_ver_, perfs_, total_selfplay_>>

(***************************************************************************)
(* src_cpp/elf/distri/feature.h: Stats, SharedMemRemote and BatchReceiver.  *)
(* A JSON message and a slice of shared memory are functions from keys to  *)
(* values; the value << >> stands for a field nobody has written.          *)
(***************************************************************************)

\* The fields Feature::registerExtractor registers, and the "hash" input key.
Keys == {"s", "hash", "a", "V", "pi"}

\* SharedMemRemote::input_keys_
input_keys_ == {"s", "hash"}

\* if (count_ >= 5000) in Stats::feed
StatsWindow == 5000

\* The member initialisers of Stats.
NewStats ==
    [ stats_ |-> << >>, count_ |-> 0, sum_batchsize_ |-> 0,
      total_batchsize_ |-> 0, total_release_batchsize_ |-> 0 ]

\* Stats::feed, with the rollover that ends in reset().
StatsFeed(st, idx, batchsize) ==
    LET seen   == IF idx \in DOMAIN st.stats_ THEN st.stats_[idx] ELSE 0
        counts == [ i \in DOMAIN st.stats_ \cup {idx} |->
                      IF i = idx THEN seen + 1 ELSE st.stats_[i] ]
        fed    == [ st EXCEPT !.stats_ = counts,
                              !.sum_batchsize_ = @ + batchsize,
                              !.total_batchsize_ = @ + batchsize,
                              !.count_ = @ + 1 ]
    IN  IF fed.count_ >= StatsWindow
        THEN [ fed EXCEPT !.stats_ = << >>, !.count_ = 0, !.sum_batchsize_ = 0 ]
        ELSE fed

\* Stats::recordRelease
StatsRecordRelease(st, batchsize) ==
    [ st EXCEPT !.total_release_batchsize_ = @ + batchsize ]

\* A slice of shared memory nobody has written to.
EmptySlice == [ k \in Keys |-> << >> ]

\* The message a connection sends: SMemToJson of the input keys
\* (BatchSender, line 126); the n-th observation of connection c is <<c, n>>.
Msg(c, n) == [ k \in input_keys_ |-> <<c, n>> ]

\* elf::SMemFromJson (sharedmem_serializer.h): the fields of the message
\* overwrite those of the slice.
SMemFromJson(j, slice) ==
    [ k \in Keys |-> IF k \in DOMAIN j THEN j[k] ELSE slice[k] ]

\* SMemToJsonExclude keeping every field.
SMemToJsonAll(slice, exclude) == slice

\* elf::SMemToJsonExclude (sharedmem_serializer.h): every field of the slice
\* but the excluded keys.
SMemToJsonExclude(slice, exclude) ==
    [ k \in Keys \ exclude |-> slice[k] ]

\* The inference call between waitBatchFillMem and waitReplyReleaseBatch
\* (collect_func, line 347): it answers each observation in place.
Inference(slice) ==
    [ k \in Keys |-> IF k \in input_keys_ THEN slice[k] ELSE slice["s"] ]

\* SharedMem::getEffectiveBatchSize (sharedmem.h): the samples in the batch.
getEffectiveBatchSize(slot) == Len(slot.remote_smem_)

\* SharedMemRemote::SharedMemRemote; reply_recv_ is the callback of
\* allocateSharedMem, bound to client_idx.
NewSharedMemRemote(batchsize, mode, client_idx, label_idx) ==
    [ mode_ |-> mode,
      remote_smem_ |-> IF mode = "RECV_SMEM" THEN << EmptySlice >>
                       ELSE [ i \in 1..batchsize |-> EmptySlice ],
      next_remote_smem_ |-> 0,
      q_ |-> << >>,
      client_idx |-> client_idx,
      label_idx |-> label_idx,
      state |-> "FILLING" ]

\* RemoteReceiver::addReplyMsg (remote_receiver.h): the reply msg, keyed by
\* idx, is queued for the connection client_idx.
addReplyMsg(client_idx, idx, msg) ==
    [ client_idx |-> client_idx, idx |-> idx, msg |-> msg ]

\* BatchReceiver::allocateSharedMem for the i-th slot of a pool serving
\* numClients connections: Collectors::getNextIdx hands out i as the index
\* and the label index, and the slot is made in RECV_SMEM mode.
allocateSharedMem(i, batchsize, numClients) ==
    NewSharedMemRemote(batchsize, "RECV_SMEM", i % numClients, i)

\* SharedMemRemote::push
push(idx, msg) == smem' = [ smem EXCEPT ![idx].q_ = Append(@, msg) ]

\* recv_func of BatchReceiver: the next message of connection c is pushed
\* to the slot idx = rng_() % collectors_->size().
recv_func(c, idx) ==
    /\ idx \in DOMAIN smem
    /\ push(idx, Msg(c, submitted[c] + 1))
    /\ submitted' = [ submitted EXCEPT ![c] = @ + 1 ]
    /\ UNCHANGED <<consumed, replies, stats_>>

\* waitBatchFillMem returning one update before the batch is full.
waitBatchFillMemShort(idx) ==
    LET slot == smem[idx]
        msg  == Head(slot.q_)
        next == slot.next_remote_smem_ + 1
        done == ~(next < Len(slot.remote_smem_) - 1)
    IN  /\ slot.state = "FILLING"
        /\ slot.q_ # << >>
        /\ smem' = [ smem EXCEPT ![idx] =
                       [ slot EXCEPT
                           !.q_ = Tail(@),
                           !.remote_smem_[next] = SMemFromJson(msg, @),
                           !.next_remote_smem_ = IF done THEN 0 ELSE next,
                           !.state = IF done THEN "READY" ELSE @ ] ]
        /\ consumed' = [ consumed EXCEPT ![idx] = Append(@, msg) ]
        /\ stats_' = IF done
                     THEN StatsFeed(stats_, slot.label_idx,
                                    getEffectiveBatchSize(slot))
                     ELSE stats_
        /\ UNCHANGED <<replies, submitted>>

\* SharedMemRemote::waitBatchFillMem, one turn of its do-while loop: pop a
\* message (the consumer is blocked while q_ is empty), write it to the
\* position under the cursor, and after the last position feed the
\* statistics, reset the cursor and return.
waitBatchFillMem(idx) ==
    LET slot == smem[idx]
        msg  == Head(slot.q_)
        next == slot.next_remote_smem_ + 1
        done == ~(next < Len(slot.remote_smem_))
    IN  /\ slot.state = "FILLING"
        /\ slot.q_ # << >>
        /\ smem' = [ smem EXCEPT ![idx] =
                       [ slot EXCEPT
                           !.q_ = Tail(@),
                           !.remote_smem_[next] = SMemFromJson(msg, @),
                           !.next_remote_smem_ = IF done THEN 0 ELSE next,
                           !.state = IF done THEN "READY" ELSE @ ] ]
        /\ consumed' = [ consumed EXCEPT ![idx] = Append(@, msg) ]
        /\ stats_' = IF done
                     THEN StatsFeed(stats_, slot.label_idx,
                                    getEffectiveBatchSize(slot))
                     ELSE stats_
        /\ UNCHANGED <<replies, submitted>>

\* collect_func (line 347): the inference engine fills in the full buffer.
collect_func(idx) ==
    LET slot == smem[idx]
    IN  /\ slot.state = "READY"
        /\ smem' = [ smem EXCEPT ![idx] =
                       [ slot EXCEPT
                           !.remote_smem_ =
                               [ i \in DOMAIN @ |-> Inference(@[i]) ],
                           !.state = "INFERRED" ] ]
        /\ UNCHANGED <<consumed, replies, submitted, stats_>>

\* waitReplyReleaseBatch replying for the first position only.
ReleasedRepliesFirst(slot) ==
    << addReplyMsg(slot.client_idx, slot.label_idx,
                   SMemToJsonExclude(slot.remote_smem_[1], input_keys_)) >>

\* The replies of waitReplyReleaseBatch, one for each element of
\* remote_smem_, in order.
ReleasedReplies(slot) ==
    [ i \in DOMAIN slot.remote_smem_ |->
        addReplyMsg(slot.client_idx, slot.label_idx,
                    SMemToJsonExclude(slot.remote_smem_[i], input_keys_)) ]

\* SharedMemRemote::waitReplyReleaseBatch
waitReplyReleaseBatch(idx) ==
    LET slot == smem[idx]
    IN  /\ slot.state = "INFERRED"
        /\ stats_' = StatsRecordRelease(stats_, getEffectiveBatchSize(slot))
        /\ replies' = replies \o ReleasedReplies(slot)
        /\ smem' = [ smem EXCEPT ![idx].state = "DISPATCHED" ]
        /\ UNCHANGED <<consumed, submitted>>

\* A consumer that does not come back for another batch.
ConsumerStops(idx) ==
    /\ smem[idx].state = "DISPATCHED"
    /\ UNCHANGED <<smem, consumed, replies, submitted, stats_>>

\* The thread that owns the slot calls waitBatchFillMem again.
ConsumerLoop(idx) ==
    /\ smem[idx].state = "DISPATCHED"
    /\ smem' = [ smem EXCEPT ![idx].state = "FILLING" ]
    /\ UNCHANGED <<consumed, replies, submitted, stats_>>

(***************************************************************************)
(* Inputs.                                                                 *)
(***************************************************************************)

MakeOptions(init_num, update_num, hist_size, fp_rate, thres, lower, upper) ==
    [ selfplay_init_num        |-> init_num,
      selfplay_update_num      |-> update_num,
      selfplay_async           |-> FALSE,
      resign_target_hist_size  |-> hist_size,
      resign_target_fp_rate    |-> fp_rate,
      resign_thres             |-> thres,
      resign_thres_lower_bound |-> lower,
      resign_thres_upper_bound |-> upper ]

OptionsAccepted(o) ==
    CalcCtorAccepts(o.resign_target_hist_size, o.resign_target_fp_rate,
                    o.resign_thres_lower_bound, o.resign_thres_upper_bound)

MakeRequest(ver, selfplay, thres) ==
    [ vers |-> [ black_ver |-> ver, selfplay |-> selfplay ],
      resign_thres |-> thres ]

MakeResult(reward, never_resign, values, num_move) ==
    [ reward |-> reward, never_resign |-> never_resign,
      values |-> values, num_move |-> num_move ]

\* Bounds of the controller specification.
MaxGamesFed == 3

MaxWeightUpdates == 1

Versions == {-1, 0, 1}

Records == {"game"}

CtrlOptions == { MakeOptions(2, 1, 2, <<1, 2>>, 50, 0, 2 * One) }

CtrlRequests ==
    { MakeRequest(v, s, One) : v \in Versions, s \in BOOLEAN }

CtrlResults ==
    { MakeResult(One, nr, <<-50, 50>>, 50) : nr \in BOOLEAN }

(***************************************************************************)
(* The controller under every interleaving of its public operations.       *)
(***************************************************************************)
Init == \E o \in CtrlOptions :
    OptionsAccepted(o) /\ CtrlInit(o) /\ NoThreads /\ NoSlots

Next ==
    \/ \E request \in CtrlRequests, result \in CtrlResults, r \in Records :
          /\ resignThresholdCalculator_.numGamesFed_ < MaxGamesFed
          /\ Feed(request, result, r)
          /\ UNCHANGED <<lockVars, batchVars>>
    \/ \E ver \in Versions : SetCurrModel(ver) /\ UNCHANGED <<lockVars, batchVars>>
    \/ \E ver \in Versions :
          NeedWaitForMoreSample(ver) /\ UNCHANGED <<lockVars, batchVars>>
    \/ /\ HasRecord(perfs_, curr_ver_) =>
             perfs_[curr_ver_].num_weight_update_ < MaxWeightUpdates
       /\ NotifyCurrentWeightUpdate
       /\ UNCHANGED <<lockVars, batchVars>>

Spec == Init /\ [][Next]_vars

(***************************************************************************)
(* A calculator fed directly: the calibration window and its aggregate.    *)
(***************************************************************************)
MaxHistSize == 2

MaxWindowFed == 4

WindowOptions ==
    { MakeOptions(0, 0, h, <<1, 2>>, 50, 0, 2 * One) : h \in 1 .. MaxHistSize }

WindowRequests == { MakeRequest(0, TRUE, t) : t \in {0, One} }

WindowResults ==
    { MakeResult(w, nr, vs, 50) :
        w \in {-One, One}, nr \in BOOLEAN, vs \in { << >>, <<-50, 50>> } }

InitWindow == \E o \in WindowOptions :
    OptionsAccepted(o) /\ CtrlInit(o) /\ NoThreads /\ NoSlots

NextWindow ==
    \E request \in WindowRequests, result \in WindowResults :
        /\ resignThresholdCalculator_.numGamesFed_ < MaxWindowFed
        /\ CalculatorFeed(request, result)
        /\ UNCHANGED <<lockVars, batchVars>>

SpecWindow == InitWindow /\ [][NextWindow]_vars

\* The last n elements of a sequence (all of it when it is shorter).
LastN(seq, n) ==
    IF Len(seq) <= n THEN seq ELSE SubSeq(seq, Len(seq) - n + 1, Len(seq))

CountIn(w, P(_)) == Cardinality({ i \in 1 .. Len(w) : P(w[i]) })

IsFp(item) == item.fp

IsBlackWin(item) == item.blackWin

C1_WindowState ==
    LET c == resignThresholdCalculator_
        w == c.winnerMinValues_
    IN  /\ Len(w) <= c.histSize_
        /\ Len(w) = Min2(c.histSize_, c.nr_stats_.total_n)
        /\ c.nr_stats_.n = Len(w)
        /\ c.nr_stats_.fp = CountIn(w, IsFp)
        /\ c.nr_stats_.blackWin = CountIn(w, IsBlackWin)

C1_FeedStep ==
    \A request \in WindowRequests, result \in WindowResults :
        CalculatorFeed(request, result) =>
            LET c == resignThresholdCalculator_
            IN  /\ resignThresholdCalculator_'.winnerMinValues_ =
                     IF result.never_resign
                     THEN LastN(Append(c.winnerMinValues_,
                                       NRItem(request, result)), c.histSize_)
                     ELSE c.winnerMinValues_
                /\ resignThresholdCalculator_'.nr_stats_.total_n =
                     c.nr_stats_.total_n + (IF result.never_resign THEN 1 ELSE 0)

\* C1: after any sequence of feed calls the window holds the most recent
\* min(H, m) never-resign samples in arrival order (m the number of
\* never-resign results fed, H = histSize), so never more than H, and n, fp
\* and blackWin count the window's members, its members with fp set and its
\* members with blackWin set.
C1_WindowAndAggregate == [] C1_WindowState /\ [][C1_FeedStep]_vars

\* An eviction has happened, after a mix of never-resign and ordinary
\* results, and the window holds both kinds of member.
C1_Witness ==
    LET c == resignThresholdCalculator_
    IN  /\ c.nr_stats_.total_n > c.histSize_
        /\ c.numGamesFed_ > c.nr_stats_.total_n
        /\ Len(c.winnerMinValues_) = 2
        /\ c.nr_stats_.fp = 1
        /\ c.nr_stats_.blackWin = 1

(***************************************************************************)
(* Claims about the controller (Spec).                                     *)
(***************************************************************************)

\* C5 as stated: feed returns VERSION_MISMATCH when the request's version
\* differs from the active version, and FEEDED otherwise, for every
\* reachable active version.
C5_MismatchOrFed ==
    call.op = "feed" =>
        call.ret = IF call.arg.black_ver # curr_ver_
                   THEN "VERSION_MISMATCH" ELSE "FEEDED"

\* C5 amended: a request not tagged as self-play gets NOT_SELFPLAY whatever
\* its version; a self-play request gets VERSION_MISMATCH when its version
\* differs from the active version, and when it equals it FEEDED if the
\* active version has a record and NOT_REQUESTED if it has none.
C5_FeedResultCodes ==
    call.op = "feed" =>
        call.ret = IF ~call.arg.selfplay THEN "NOT_SELFPLAY"
                   ELSE IF call.arg.black_ver # curr_ver_ THEN "VERSION_MISMATCH"
                   ELSE IF curr_ver_ \in DOMAIN perfs_ THEN "FEEDED"
                   ELSE "NOT_REQUESTED"

\* A self-play result of the active version was accepted after the version
\* had been switched.
C5_Witness ==
    /\ call.op = "feed" /\ call.ret = "FEEDED"
    /\ curr_ver_ = 1 /\ 0 \in DOMAIN perfs_
    /\ perfs_[1].counter_ = 2

C6_ResultCode ==
    call.op = "needWaitForMoreSample" =>
        IF call.arg < curr_ver_
        THEN call.ret = "VERSION_OLD"
        ELSE IF curr_ver_ \notin DOMAIN perfs_
        THEN call.ret = "VERSION_INVALID"
        ELSE /\ call.ret \in {"INSUFFICIENT_SAMPLE", "SUFFICIENT_SAMPLE"}
             /\ call.ret = "INSUFFICIENT_SAMPLE" <=>
                   RecNeedWaitForMoreSample(perfs_[curr_ver_], options_)

C6_NoStateChange ==
    call'.op = "needWaitForMoreSample" =>
        UNCHANGED <<options_, curr_ver_, perfs_, resignThresholdCalculator_,
                    total_selfplay_, aborted>>

\* C6: needWaitForMoreSample(v) returns VERSION_OLD for v below the active
\* version; for v equal or newer it returns VERSION_INVALID when the active
\* version has no record, and otherwise INSUFFICIENT_SAMPLE or
\* SUFFICIENT_SAMPLE as the active version's record needs more samples or
\* not; the call changes no state.
C6_NeedWaitForMoreSample == [] C6_ResultCode /\ [][C6_NoStateChange]_vars

\* The call was made for a version newer than the active one, whose record
\* differs from the active version's: the answer is the active record's.
C6_Witness ==
    /\ call.op = "needWaitForMoreSample"
    /\ call.ret = "SUFFICIENT_SAMPLE"
    /\ curr_ver_ = 0 /\ call.arg = 1
    /\ 1 \in DOMAIN perfs_
    /\ RecNeedWaitForMoreSample(perfs_[1], options_)

(***************************************************************************)
(* A calculator fed and recalibrated directly, with any maxDelta.          *)
(***************************************************************************)
MaxThresholdFed == 8

\* In turn: a wide range, a narrow range, and an initial threshold above
\* maxThreshold, which the constructor accepts.
ThresholdOptions ==
    { MakeOptions(0, 0, 8, <<1, 2>>, 50, 0, 2 * One),
      MakeOptions(0, 0, 8, <<1, 2>>, 50, 49, 51),
      MakeOptions(0, 0, 8, <<1, 2>>, 60, 0, 51) }

ThresholdRequests == { MakeRequest(0, TRUE, One) }

\* Never-resign games: black wins with minimum value 0.48 or 0.50, white wins
\* with minimum value 0.52.
ThresholdResults ==
    { MakeResult(One, TRUE, <<-52>>, 50), MakeResult(One, TRUE, <<-50, 0, 20>>, 50),
      MakeResult(-One, TRUE, <<0, 48>>, 50) }

MaxDeltas == {0, 1, 5}

InitThreshold == \E o \in ThresholdOptions :
    OptionsAccepted(o) /\ CtrlInit(o) /\ NoThreads /\ NoSlots

NextThreshold ==
    \/ \E request \in ThresholdRequests, result \in ThresholdResults :
          /\ resignThresholdCalculator_.numGamesFed_ < MaxThresholdFed
          /\ CalculatorFeed(request, result)
          /\ UNCHANGED <<lockVars, batchVars>>
    \/ \E maxDelta \in MaxDeltas :
          UpdateThreshold(maxDelta) /\ UNCHANGED <<lockVars, batchVars>>

SpecThreshold == InitThreshold /\ [][NextThreshold]_vars

\* The minimum-values of a window sorted ascending (insertion sort).
RECURSIVE InsertSorted(_, _)
InsertSorted(sorted, x) ==
    IF sorted = << >> THEN <<x>>
    ELSE IF x <= Head(sorted) THEN <<x>> \o sorted
    ELSE <<Head(sorted)>> \o InsertSorted(Tail(sorted), x)

RECURSIVE SortedMinValues(_)
SortedMinValues(w) ==
    IF w = << >> THEN << >>
    ELSE InsertSorted(SortedMinValues(Tail(w)), Head(w).minValue)

\* floor(falsePositiveTarget * windowSize)
QuantileIndex ==
    LET c == resignThresholdCalculator_
    IN  (c.falsePositiveTarget_[1] * Len(c.winnerMinValues_))
            \div c.falsePositiveTarget_[2]

\* windowSize >= 2 / falsePositiveTarget + 4
WindowLargeEnough ==
    LET c == resignThresholdCalculator_
    IN  c.falsePositiveTarget_[1] * Len(c.winnerMinValues_)
            >= 2 * c.falsePositiveTarget_[2] + 4 * c.falsePositiveTarget_[1]

\* The element at 0-based index QuantileIndex of the sorted window.
OrderStatistic ==
    SortedMinValues(resignThresholdCalculator_.winnerMinValues_)[QuantileIndex + 1]

\* C2 as stated: one updateThreshold(maxDelta) call changes the threshold by
\* at most maxDelta, for every initialThreshold the constructor accepts.
C2_ChangeAtMostMaxDelta ==
    call.op = "updateThreshold" =>
        Abs(resignThresholdCalculator_.curThreshold_ - call.aux) <= call.arg

\* C3 as stated: the value updateThreshold returns, early return included,
\* lies in [minThreshold, maxThreshold], for every initialThreshold the
\* constructor accepts.
C3_ResultInRange ==
    call.op = "updateThreshold" =>
        /\ resignThresholdCalculator_.minThreshold_ <= call.ret
        /\ call.ret <= resignThresholdCalculator_.maxThreshold_
        /\ getThreshold(resignThresholdCalculator_) = call.ret

\* The calculator was constructed with initialThreshold in [min, max].
InitialThresholdInRange ==
    /\ options_.resign_thres_lower_bound <= options_.resign_thres
    /\ options_.resign_thres <= options_.resign_thres_upper_bound

\* Both hold of a calculator whose initial threshold lies in [min, max].
ThresholdBoundsWhenInitialInRange ==
    InitialThresholdInRange => C2_ChangeAtMostMaxDelta /\ C3_ResultInRange

\* C4 as stated: on a window of size >= 2/falsePositiveTarget + 4,
\* updateThreshold returns exactly the order statistic at index
\* floor(falsePositiveTarget * windowSize).
C4_ExactOrderStatistic ==
    (call.op = "updateThreshold" /\ WindowLargeEnough) =>
        call.ret = OrderStatistic

\* C4 amended: when k = floor(falsePositiveTarget * windowSize) has k >= 2
\* and k + 2 < windowSize, updateThreshold returns the order statistic at
\* index k limited to [old - maxDelta, old + maxDelta] and then to
\* [minThreshold, maxThreshold]: the order statistic itself exactly when it
\* lies in both ranges.
C4_ClampedOrderStatistic ==
    LET c   == resignThresholdCalculator_
        n   == Len(c.winnerMinValues_)
        old == call.aux
    IN  (call.op = "updateThreshold" /\ QuantileIndex >= 2 /\ QuantileIndex + 2 < n) =>
            /\ call.ret =
                 Min2(Max2(Max2(Min2(OrderStatistic, old + call.arg),
                                old - call.arg), c.minThreshold_),
                      c.maxThreshold_)
            /\ ( /\ Abs(OrderStatistic - old) <= call.arg
                 /\ c.minThreshold_ <= OrderStatistic
                 /\ OrderStatistic <= c.maxThreshold_ ) => call.ret = OrderStatistic

\* A full window of eight samples, and the call moved the threshold to the
\* order statistic, which differs from the window's minimum.
C4_Witness ==
    /\ call.op = "updateThreshold"
    /\ WindowLargeEnough
    /\ call.ret = OrderStatistic
    /\ call.ret # call.aux
    /\ call.ret # SortedMinValues(resignThresholdCalculator_.winnerMinValues_)[1]

(***************************************************************************)
(* One version fed for a long time: checkpoints and sample quotas.         *)
(***************************************************************************)
MaxScheduleFed == 2050

MaxScheduleUpdates == 2

\* (selfplay_init_num, selfplay_update_num): both configured, neither, only
\* the initial threshold, only the update increment.
ScheduleOptions ==
    { MakeOptions(n[1], n[2], 2, <<1, 2>>, 50, 0, 2 * One) :
        n \in { <<100, 50>>, <<0, 0>>, <<2, 0>>, <<0, 50>> } }

ScheduleRequest == MakeRequest(0, TRUE, One)

ScheduleResult == MakeResult(One, FALSE, << >>, 50)

InitSchedule == \E o \in ScheduleOptions :
    OptionsAccepted(o) /\ CtrlInit(o) /\ NoThreads /\ NoSlots

NextSchedule ==
    \/ SetCurrModel(0) /\ UNCHANGED <<lockVars, batchVars>>
    \/ /\ curr_ver_ = 0
       /\ total_selfplay_ < MaxScheduleFed
       /\ \E r \in Records : Feed(ScheduleRequest, ScheduleResult, r)
       /\ UNCHANGED <<lockVars, batchVars>>
    \/ NeedWaitForMoreSample(0) /\ UNCHANGED <<lockVars, batchVars>>
    \/ /\ HasRecord(perfs_, curr_ver_) =>
             perfs_[curr_ver_].num_weight_update_ < MaxScheduleUpdates
       /\ NotifyCurrentWeightUpdate
       /\ UNCHANGED <<lockVars, batchVars>>

SpecSchedule == InitSchedule /\ [][NextSchedule]_vars

InitNum == options_.selfplay_init_num

UpdateNum == options_.selfplay_update_num

\* counter is one of I, I + U, I + 2U, ...
OnSchedule(counter) ==
    \E k \in 0 .. (counter \div UpdateNum) : counter = InitNum + k * UpdateNum

\* counter is a positive multiple of 1000
OnDefaultCadence(counter) ==
    \E k \in 1 .. (counter \div 1000) : counter = 1000 * k

\* C7: with I > 0 and U > 0 the record needs more samples exactly when
\* counter < I or counter < I + U * weightUpdateCount, and the controller
\* answers INSUFFICIENT_SAMPLE exactly then; with I <= 0 it never does.
C7_NeedsMoreSamples ==
    \A v \in DOMAIN perfs_ :
        LET rec   == perfs_[v]
            needs == RecNeedWaitForMoreSample(rec, options_)
            asked == /\ call.op = "needWaitForMoreSample"
                     /\ v = curr_ver_ /\ call.arg >= curr_ver_
        IN  /\ (InitNum > 0 /\ UpdateNum > 0) =>
                  /\ needs <=>
                       \/ rec.counter_ < InitNum
                       \/ rec.counter_ < InitNum + UpdateNum * rec.num_weight_update_
                  /\ asked => (call.ret = "INSUFFICIENT_SAMPLE" <=> needs)
            /\ InitNum <= 0 =>
                  /\ ~needs
                  /\ asked => call.ret = "SUFFICIENT_SAMPLE"

\* I = 100, U = 50: after one weight update, 120 episodes are not enough.
C7_Witness ==
    /\ call.op = "needWaitForMoreSample" /\ call.ret = "INSUFFICIENT_SAMPLE"
    /\ InitNum = 100 /\ UpdateNum = 50
    /\ 0 \in DOMAIN perfs_
    /\ perfs_[0].counter_ = 120
    /\ perfs_[0].num_weight_update_ = 1

\* C8: with I > 0 and U > 0, isCheckpoint() is true exactly at the counts
\* I, I + U, I + 2U, ... (not at 0); with neither configured, exactly at the
\* positive multiples of 1000. A feed saves exactly at those counts.
C8_CheckpointSchedule ==
    \A v \in DOMAIN perfs_ :
        LET rec    == perfs_[v]
            fed    == call.op = "feed" /\ call.ret = "FEEDED" /\ v = curr_ver_
        IN  /\ (InitNum > 0 /\ UpdateNum > 0) =>
                  /\ is_check_point(rec, options_) <=> OnSchedule(rec.counter_)
                  /\ fed => (call.aux <=> OnSchedule(rec.counter_))
            /\ (InitNum <= 0 /\ UpdateNum <= 0) =>
                  /\ is_check_point(rec, options_) <=> OnDefaultCadence(rec.counter_)
                  /\ fed => (call.aux <=> OnDefaultCadence(rec.counter_))

\* I = 100, U = 50: the feed that brought the count to 200 saved.
C8_Witness ==
    /\ call.op = "feed" /\ call.ret = "FEEDED" /\ call.aux
    /\ InitNum = 100 /\ UpdateNum = 50
    /\ 0 \in DOMAIN perfs_
    /\ perfs_[0].counter_ = 200

\* C9 as stated: whenever I > 0 is configured, isCheckpoint() is true when
\* the episode counter equals I, with or without an update increment.
C9_CheckpointAtInitNum ==
    \A v \in DOMAIN perfs_ :
        (InitNum > 0 /\ perfs_[v].counter_ = InitNum) =>
            is_check_point(perfs_[v], options_)

\* Episodes fed to a record since its last checkpoint.
SinceLastCheckpoint(counter) ==
    IF InitNum > 0 /\ UpdateNum > 0
    THEN IF counter < InitNum THEN counter
         ELSE (counter - InitNum) % UpdateNum
    ELSE counter % 1000

C10_BufferAndCounters ==
    \A v \in DOMAIN perfs_ :
        LET rec == perfs_[v]
            fed == call.op = "feed" /\ call.ret = "FEEDED" /\ v = curr_ver_
        IN  /\ Len(rec.records_) = SinceLastCheckpoint(rec.counter_)
            /\ rec.counter_ = rec.black_win_ + rec.white_win_
            /\ rec.counter_ = rec.move0_100 + rec.move100_200
                                + rec.move200_300 + rec.move300_up
            /\ v = curr_ver_ => rec.counter_ = total_selfplay_
            /\ fed => /\ call.aux <=> is_check_point(rec, options_)
                      /\ call.aux <=> rec.records_ = << >>

C10_FeedStep ==
    (call'.op = "feed" /\ call'.ret = "FEEDED") =>
        LET old == perfs_[curr_ver_]
            new == perfs_'[curr_ver_]
        IN  /\ new.counter_ = old.counter_ + 1
            /\ new.black_win_ + new.white_win_ = old.black_win_ + old.white_win_ + 1
            /\ new.n_black_resign_ >= old.n_black_resign_
            /\ new.n_white_resign_ >= old.n_white_resign_
            /\ new.move0_100 + new.move100_200 + new.move200_300 + new.move300_up
                 = old.move0_100 + old.move100_200 + old.move200_300
                     + old.move300_up + 1
            /\ new.num_weight_update_ = old.num_weight_update_
            /\ new.resign_threshold_ = old.resign_threshold_
            /\ IF call'.aux
               THEN new.records_ = << >>
               ELSE \E r \in Records : new.records_ = Append(old.records_, r)

\* C10: checkAndSave empties the pending buffer exactly when isCheckpoint()
\* holds and returns whether it did; it leaves the episode, win, resign and
\* move-length counters, the weight-update count and the threshold snapshot
\* as feed left them. So the buffer's length is the number of episodes fed
\* to the record since its last checkpoint.
C10_CheckAndSave == [] C10_BufferAndCounters /\ [][C10_FeedStep]_vars

\* I = 100, U = 50: 30 episodes are pending after the checkpoint at 150.
C10_Witness ==
    /\ call.op = "feed" /\ call.ret = "FEEDED" /\ ~call.aux
    /\ InitNum = 100 /\ UpdateNum = 50
    /\ 0 \in DOMAIN perfs_
    /\ perfs_[0].counter_ = 180
    /\ Len(perfs_[0].records_) = 30

(***************************************************************************)
(* The controller with a calibration window large enough for the threshold *)
(* to move between the creation of one record and the next.                *)
(***************************************************************************)
MaxSnapshotFed == 5

MaxSnapshotUpdates == 1

SnapshotVersions == {-1, 0, 1}

SnapshotOptions ==
    { [ MakeOptions(2, 1, 8, <<1, 2>>, 50, 0, 2 * One)
          EXCEPT !.selfplay_async = a ] : a \in BOOLEAN }

SnapshotRequests ==
    { MakeRequest(0, TRUE, One), MakeRequest(1, TRUE, One),
      MakeRequest(1, FALSE, One) }

SnapshotResults == { MakeResult(One, TRUE, <<-52>>, 50) }

InitSnapshot == \E o \in SnapshotOptions :
    OptionsAccepted(o) /\ CtrlInit(o) /\ NoThreads /\ NoSlots

NextSnapshot ==
    \/ \E request \in SnapshotRequests, result \in SnapshotResults,
          r \in Records :
          /\ resignThresholdCalculator_.numGamesFed_ < MaxSnapshotFed
          /\ Feed(request, result, r)
          /\ UNCHANGED <<lockVars, batchVars>>
    \/ \E ver \in SnapshotVersions :
          SetCurrModel(ver) /\ UNCHANGED <<lockVars, batchVars>>
    \/ \E ver \in SnapshotVersions :
          NeedWaitForMoreSample(ver) /\ UNCHANGED <<lockVars, batchVars>>
    \/ /\ HasRecord(perfs_, curr_ver_) =>
             perfs_[curr_ver_].num_weight_update_ < MaxSnapshotUpdates
       /\ NotifyCurrentWeightUpdate
       /\ UNCHANGED <<lockVars, batchVars>>
    \/ FillInRequest(FreshRequest) /\ UNCHANGED <<lockVars, batchVars>>
    \/ GetCurrModel /\ UNCHANGED <<lockVars, batchVars>>
    \/ GetNumSelfplayCurrModel /\ UNCHANGED <<lockVars, batchVars>>

SpecSnapshot == InitSnapshot /\ [][NextSnapshot]_vars

\* C11: the resign threshold of a record is the one updateThreshold() returned
\* when the record was created, no later operation of the controller changes
\* it, and fillInRequest writes the active record's own threshold.
C11_SnapshotStep ==
    \A v \in DOMAIN perfs_' :
        IF v \in DOMAIN perfs_
        THEN perfs_'[v].resign_threshold_ = perfs_[v].resign_threshold_
        ELSE /\ call'.op = "setCurrModel" /\ call'.arg = v
             /\ perfs_'[v].resign_threshold_ =
                   resignThresholdCalculator_'.curThreshold_

C11_RequestCarriesSnapshot ==
    (call.op = "fillInRequest" /\ curr_ver_ >= 0 /\ ~aborted) =>
        call.ret.resign_thres = perfs_[curr_ver_].resign_threshold_

C11_SnapshotFixed ==
    [] C11_RequestCarriesSnapshot /\ [][C11_SnapshotStep]_vars

\* Two records with different snapshots, and a request filled with a snapshot
\* that is no longer the calculator's threshold.
C11_Witness ==
    /\ call.op = "fillInRequest"
    /\ curr_ver_ >= 0
    /\ call.ret.resign_thres # resignThresholdCalculator_.curThreshold_
    /\ \E v, w \in DOMAIN perfs_ :
          perfs_[v].resign_threshold_ # perfs_[w].resign_threshold_

RECURSIVE SumCounters(_, _)
SumCounters(perfs, S) ==
    IF S = {} THEN 0
    ELSE LET v == CHOOSE x \in S : TRUE
         IN  perfs[v].counter_ + SumCounters(perfs, S \ {v})

\* C12: a feed that returns NOT_SELFPLAY, VERSION_MISMATCH or NOT_REQUESTED
\* feeds the calculator and leaves the active version, every record and the
\* total count as they were; a record only ever gains an episode in a feed
\* that returns FEEDED for the active version, so the episodes counted in the
\* records are exactly the accepted ones.
C12_RejectedFeedStep ==
    (call'.op = "feed" /\ call'.ret # "FEEDED") =>
        /\ call'.ret \in {"NOT_SELFPLAY", "VERSION_MISMATCH", "NOT_REQUESTED"}
        /\ curr_ver_' = curr_ver_
        /\ perfs_' = perfs_
        /\ total_selfplay_' = total_selfplay_
        /\ resignThresholdCalculator_'.numGamesFed_ =
              resignThresholdCalculator_.numGamesFed_ + 1

C12_RecordGainStep ==
    \A v \in DOMAIN perfs_ :
        (perfs_'[v].counter_ # perfs_[v].counter_
           \/ perfs_'[v].records_ # perfs_[v].records_) =>
            /\ call'.op = "feed" /\ call'.ret = "FEEDED"
            /\ call'.arg.black_ver = v /\ curr_ver_ = v
            /\ is_selfplay(call'.arg)
            /\ perfs_'[v].counter_ = perfs_[v].counter_ + 1
            /\ total_selfplay_' = total_selfplay_ + 1

C12_OnlyAcceptedCounted ==
    total_selfplay_ = SumCounters(perfs_, DOMAIN perfs_)

C13_SetCurrModelStep ==
    (call'.op = "setCurrModel") =>
        LET v == call'.arg
        IN  IF v = curr_ver_
            THEN /\ call'.ret = FALSE
                 /\ UNCHANGED <<curr_ver_, perfs_, resignThresholdCalculator_,
                                total_selfplay_>>
            ELSE /\ call'.ret = TRUE
                 /\ curr_ver_' = v
                 /\ DOMAIN perfs_' = DOMAIN perfs_ \cup {v}
                 /\ \A w \in DOMAIN perfs_ : perfs_'[w] = perfs_[w]
                 /\ v \notin DOMAIN perfs_ => perfs_'[v].counter_ = 0

C13_NoRecordRemoved == DOMAIN perfs_ \subseteq DOMAIN perfs_'

C13_SetCurrModel == [][C13_SetCurrModelStep /\ C13_NoRecordRemoved]_vars

\* The controller switched back to a version that had been active before and
\* had episodes counted.
C13_Witness ==
    /\ call.op = "setCurrModel" /\ call.ret = TRUE
    /\ perfs_[curr_ver_].counter_ > 0
    /\ Cardinality(DOMAIN perfs_) >= 2

\* C19: fillInRequest leaves a wait instruction exactly when there is no active
\* version (curr_ver_ = -1); otherwise the request carries the active version
\* as black version, -1 as white version, and the active record's threshold,
\* the never-resign probability 0.1 and the async flag.  It changes no state
\* of the controller.
C19_RequestContents ==
    (call.op = "fillInRequest" /\ ~aborted) =>
        /\ call.ret.vers.wait <=> curr_ver_ = -1
        /\ curr_ver_ # -1 =>
              /\ call.ret.vers.black_ver = curr_ver_
              /\ call.ret.vers.white_ver = -1
              /\ call.ret.resign_thres = perfs_[curr_ver_].resign_threshold_
              /\ call.ret.never_resign_prob = NeverResignProb
              /\ call.ret.async = options_.selfplay_async

C19_NoStateChange ==
    (call'.op = "fillInRequest") =>
        UNCHANGED <<options_, curr_ver_, perfs_, resignThresholdCalculator_,
                    total_selfplay_>>

MaxSubmitted == 2

MaxBatchSize == 2

\* The connections of the receiver, and RemoteReceiver::getNumClients.
Connections == {0, 1}

NumClients == Cardinality(Connections)

\* The slot indices a configuration may use.
SlotIds == {0, 1}

\* The slots of a configuration: a single RECV_ENTRY slot of n positions, or
\* the pool allocateSharedMem builds for two labels' worth of slots.
EntrySlot(n) == [ i \in {0} |-> NewSharedMemRemote(n, "RECV_ENTRY", 0, 0) ]

ReceiverPool(n) == [ i \in 0..(n - 1) |-> allocateSharedMem(i, 1, NumClients) ]

BatchConfigs ==
    { EntrySlot(n) : n \in 1..MaxBatchSize } \cup { ReceiverPool(2) }

InitBatch ==
    /\ \E o \in CtrlOptions : CtrlInit(o)
    /\ NoThreads
    /\ smem \in BatchConfigs
    /\ consumed = [ i \in DOMAIN smem |-> << >> ]
    /\ replies = << >>
    /\ submitted = [ c \in Connections |-> 0 ]
    /\ stats_ = NewStats

NextBatch ==
    \/ \E c \in Connections, idx \in DOMAIN smem :
          /\ submitted[c] < MaxSubmitted
          /\ recv_func(c, idx)
          /\ UNCHANGED <<ctrlVars, lockVars>>
    \/ \E idx \in DOMAIN smem :
          waitBatchFillMem(idx) /\ UNCHANGED <<ctrlVars, lockVars>>
    \/ \E idx \in DOMAIN smem :
          collect_func(idx) /\ UNCHANGED <<ctrlVars, lockVars>>
    \/ \E idx \in DOMAIN smem :
          waitReplyReleaseBatch(idx) /\ UNCHANGED <<ctrlVars, lockVars>>
    \/ \E idx \in DOMAIN smem :
          ConsumerLoop(idx) /\ UNCHANGED <<ctrlVars, lockVars>>

SpecBatch == InitBatch /\ [][NextBatch]_vars

\* The number of positions of a slot, and the messages of its last full batch.
Positions(idx) == Len(smem[idx].remote_smem_)

LastBatch(idx) ==
    SubSeq(consumed[idx], Len(consumed[idx]) - Positions(idx) + 1,
           Len(consumed[idx]))

RECURSIVE SumCycles(_)
SumCycles(S) ==
    IF S = {} THEN 0
    ELSE LET idx == CHOOSE x \in S : TRUE
         IN  (Len(consumed[idx]) \div Positions(idx)) + SumCycles(S \ {idx})

\* C14: the cursor of a slot with N positions stays in 0..N-1 and counts the
\* updates consumed modulo N; waitBatchFillMem has returned only when a
\* multiple of N updates, and at least N, have been consumed, the cursor is 0
\* and position i holds the i-th update of the last N in arrival order; the
\* returns counted so far are one for every N updates consumed; and the
\* updates are consumed in the order they were pushed.
C14_CursorAndPositions ==
    \A idx \in DOMAIN smem :
        LET slot == smem[idx]
            N    == Positions(idx)
            done == Len(consumed[idx])
        IN  /\ 0 <= slot.next_remote_smem_ /\ slot.next_remote_smem_ < N
            /\ slot.next_remote_smem_ = done % N
            /\ slot.state # "FILLING" =>
                  /\ slot.next_remote_smem_ = 0
                  /\ done >= N
                  /\ \A i \in 1..N :
                        slot.remote_smem_[i]["s"] = LastBatch(idx)[i]["s"]

C14_ReturnsCounted == stats_.count_ = SumCycles(DOMAIN smem)

C14_FillStep ==
    \A idx \in DOMAIN smem :
        LET before == consumed[idx] \o smem[idx].q_
            after  == consumed'[idx] \o smem'[idx].q_
        IN  /\ \/ after = before
               \/ /\ Len(after) = Len(before) + 1
                  /\ SubSeq(after, 1, Len(before)) = before
            /\ (smem[idx].state = "FILLING" /\ smem'[idx].state # "FILLING") =>
                  /\ smem'[idx].state = "READY"
                  /\ Len(consumed'[idx]) = Len(consumed[idx]) + 1
                  /\ smem[idx].next_remote_smem_ = Positions(idx) - 1

C14_BatchFill ==
    /\ [] (C14_CursorAndPositions /\ C14_ReturnsCounted)
    /\ [][C14_FillStep]_vars

\* A slot of two positions is ready for the second time, filled by both
\* connections.
C14_Witness ==
    \E idx \in DOMAIN smem :
        /\ Positions(idx) = 2
        /\ smem[idx].state = "READY"
        /\ Len(consumed[idx]) = 4
        /\ \E i, j \in 1..2 :
              LastBatch(idx)[i]["s"][1] # LastBatch(idx)[j]["s"][1]

\* C15: replies are handed over only by waitReplyReleaseBatch, and one call on
\* a slot of N positions hands over exactly N, the i-th answering the update
\* in position i of the batch just filled and holding every field except
\* the input keys "s" and "hash".
C15_ReleaseStep ==
    /\ replies' # replies =>
          \E idx \in DOMAIN smem :
              /\ smem[idx].state = "INFERRED"
              /\ smem'[idx].state = "DISPATCHED"
              /\ Len(replies') = Len(replies) + Positions(idx)
              /\ SubSeq(replies', 1, Len(replies)) = replies
              /\ \A i \in 1..Positions(idx) :
                    LET reply == replies'[Len(replies) + i]
                    IN  /\ DOMAIN reply.msg = Keys \ {"s", "hash"}
                        /\ reply.msg["a"] = LastBatch(idx)[i]["s"]
    /\ \A idx \in DOMAIN smem :
          (smem[idx].state # "DISPATCHED" /\ smem'[idx].state = "DISPATCHED") =>
              Len(replies') = Len(replies) + Positions(idx)

C15_OneReplyPerPosition == [][C15_ReleaseStep]_vars

C15_Witness ==
    \E idx \in DOMAIN smem :
        /\ Positions(idx) = 2
        /\ smem[idx].state = "DISPATCHED"
        /\ Len(replies) = 4
        /\ replies[3].msg["a"] # replies[4].msg["a"]

\* The connection and the sequence number of the update a reply answers.
ReplyOrigin(reply) == reply.msg["a"]

\* C17: in a pool of several slots, every reply is handed to the connection
\* that sent the update it answers.
C17_ReplyToOriginator ==
    Cardinality(DOMAIN smem) > 1 =>
        \A i \in DOMAIN replies :
            replies[i].client_idx = ReplyOrigin(replies[i])[1]

\* C18: the replies to the updates of one connection are dispatched in the
\* order the connection submitted them.
C18_StreamOrder ==
    \A i, j \in DOMAIN replies :
        (i < j /\ ReplyOrigin(replies[i])[1] = ReplyOrigin(replies[j])[1]) =>
            ReplyOrigin(replies[i])[2] < ReplyOrigin(replies[j])[2]

\* With a single slot the order of a connection's stream is preserved.
StreamOrderInOneSlot == Cardinality(DOMAIN smem) = 1 => C18_StreamOrder

(***************************************************************************)
(* The batch slots with a consumer thread per slot that keeps running.     *)
(***************************************************************************)
Consumer(idx) ==
    /\ idx \in DOMAIN smem
    /\ \/ waitBatchFillMem(idx)
       \/ collect_func(idx)
       \/ waitReplyReleaseBatch(idx)
       \/ ConsumerLoop(idx)
    /\ UNCHANGED <<ctrlVars, lockVars>>

SpecBatchFair ==
    InitBatch /\ [][NextBatch]_vars /\ \A idx \in SlotIds : WF_vars(Consumer(idx))

\* The updates a slot still needs before waitBatchFillMem can return.
Missing(idx) ==
    Positions(idx) - smem[idx].next_remote_smem_ - Len(smem[idx].q_)

\* C20: a push is possible whatever the state of the slot; a consumer in
\* waitBatchFillMem whose slot has the updates for a full batch eventually
\* returns; a slot that has released a batch and has N further updates
\* queued becomes ready again; a slot that has received fewer than N
\* updates in all is still filling, and no step takes a slot out of
\* waitBatchFillMem while updates are missing.
C20_PushNeverBlocks ==
    \A c \in Connections, idx \in DOMAIN smem :
        submitted[c] < MaxSubmitted =>
            ENABLED (recv_func(c, idx) /\ UNCHANGED <<ctrlVars, lockVars>>)

C20_BlockedWhileShort ==
    \A idx \in DOMAIN smem :
        Len(consumed[idx]) + Len(smem[idx].q_) < Positions(idx) =>
            smem[idx].state = "FILLING"

C20_FillCompletes ==
    \A idx \in SlotIds :
        (idx \in DOMAIN smem /\ smem[idx].state = "FILLING" /\ Missing(idx) <= 0)
            ~> (idx \in DOMAIN smem /\ smem[idx].state = "READY")

C20_CycleRestarts ==
    \A idx \in SlotIds :
        (idx \in DOMAIN smem /\ smem[idx].state = "DISPATCHED"
            /\ Len(smem[idx].q_) >= Positions(idx))
            ~> (idx \in DOMAIN smem /\ smem[idx].state = "READY")

C20_StaysBlocked ==
    \A idx \in DOMAIN smem :
        (smem[idx].state = "FILLING" /\ Missing(idx) > 0) =>
            smem'[idx].state = "FILLING"

C20_FillLiveness ==
    /\ [] (C20_PushNeverBlocks /\ C20_BlockedWhileShort)
    /\ [][C20_StaysBlocked]_vars
    /\ C20_FillCompletes
    /\ C20_CycleRestarts

\* A slot of two positions has released a batch while two further updates
\* were already queued for its next cycle.
C20_Witness ==
    \E idx \in DOMAIN smem :
        /\ Positions(idx) = 2
        /\ smem[idx].state = "DISPATCHED"
        /\ Len(smem[idx].q_) = 2

(***************************************************************************)
(* The controller called from several threads.                             *)
(***************************************************************************)
MaxLockFed == 5

Threads == {1, 2}

LockVersions == {0, 1}

LockOptions == { MakeOptions(2, 1, 8, <<1, 2>>, 50, 0, 2 * One) }

LockRequest == MakeRequest(0, TRUE, One)

LockResult == MakeResult(One, TRUE, <<-52>>, 50)

InitLock ==
    /\ \E o \in LockOptions : OptionsAccepted(o) /\ CtrlInit(o)
    /\ mutex_ = NoThread
    /\ threads = [ t \in Threads |-> [ op |-> "idle", arg |-> 0 ] ]
    /\ NoSlots

NextLock ==
    \/ \E t \in Threads :
          /\ \/ LockGuard(t, "feed", 0)
             \/ \E ver \in LockVersions : LockGuard(t, "setCurrModel", ver)
             \/ LockGuard(t, "needWaitForMoreSample", 0)
             \/ LockGuard(t, "notifyCurrentWeightUpdate", 0)
             \/ LockGuard(t, "fillInRequest", 0)
             \/ LockGuard(t, "getCurrModel", 0)
             \/ LockGuard(t, "getNumSelfplayCurrModel", 0)
          /\ UNCHANGED batchVars
    \/ \E t \in Threads, r \in Records :
          /\ threads[t].op = "feed"
          /\ resignThresholdCalculator_.numGamesFed_ < MaxLockFed
          /\ Feed(LockRequest, LockResult, r)
          /\ Unlock(t) /\ UNCHANGED batchVars
    \/ \E t \in Threads :
          /\ threads[t].op = "setCurrModel"
          /\ SetCurrModel(threads[t].arg)
          /\ Unlock(t) /\ UNCHANGED batchVars
    \/ \E t \in Threads :
          /\ threads[t].op = "needWaitForMoreSample"
          /\ NeedWaitForMoreSample(threads[t].arg)
          /\ Unlock(t) /\ UNCHANGED batchVars
    \/ \E t \in Threads :
          /\ threads[t].op = "notifyCurrentWeightUpdate"
          /\ HasRecord(perfs_, curr_ver_) =>
                perfs_[curr_ver_].num_weight_update_ < MaxWeightUpdates
          /\ NotifyCurrentWeightUpdate
          /\ Unlock(t) /\ UNCHANGED batchVars
    \/ \E t \in Threads :
          /\ threads[t].op = "fillInRequest"
          /\ FillInRequest(FreshRequest)
          /\ Unlock(t) /\ UNCHANGED batchVars
    \/ \E t \in Threads :
          /\ threads[t].op = "getCurrModel"
          /\ GetCurrModel
          /\ Unlock(t) /\ UNCHANGED batchVars
    \/ \E t \in Threads :
          /\ threads[t].op = "getNumSelfplayCurrModel"
          /\ GetNumSelfplayCurrModel
          /\ Unlock(t) /\ UNCHANGED batchVars
    \/ \E t \in Threads :
          BeginGetResignThreshold(t) /\ UNCHANGED batchVars
    \/ \E t \in Threads :
          EndGetResignThreshold(t) /\ UNCHANGED batchVars

SpecLock == InitLock /\ [][NextLock]_vars

\* Thread u is inside a setCurrModel that makes a record and assigns the
\* calculator's threshold (updateThreshold past its early return).
WritesThreshold(u) ==
    /\ mutex_ = u
    /\ threads[u].op = "setCurrModel"
    /\ threads[u].arg # curr_ver_
    /\ ~HasRecord(perfs_, threads[u].arg)
    /\ ~TooSmall(resignThresholdCalculator_)

\* Thread t is inside an operation that reads the calculator's threshold.
ReadsThreshold(t) ==
    threads[t].op \in {"getResignThreshold", "setCurrModel"}

\* Every thread inside a public operation holds the mutex.
AccessUnderLock ==
    \A t \in DOMAIN threads : threads[t].op # "idle" => mutex_ = t

\* C16: every public operation touches the state only under the mutex, so no
\* thread reads the calculator's threshold while another thread is inside an
\* operation that writes it.
C16_NoReadOverlapsWrite ==
    \A t, u \in DOMAIN threads :
        (t # u /\ WritesThreshold(u)) => ~ReadsThreshold(t)

\* Every operation but getResignThreshold runs under the mutex.
LockedOperationsExclusive ==
    \A t \in DOMAIN threads :
        threads[t].op \notin {"idle", "getResignThreshold"} => mutex_ = t

\* C21: when k = floor(falsePositiveTarget * windowSize) is below 2 or
\* k + 2 >= windowSize, updateThreshold returns the current threshold and
\* leaves the calculator as it was; while the window is empty the threshold
\* is the initial one.
C21_EarlyReturnStep ==
    LET c == resignThresholdCalculator_
    IN  ( /\ call'.op = "updateThreshold"
          /\ \/ QuantileIndex < 2
             \/ QuantileIndex + 2 >= Len(c.winnerMinValues_) ) =>
            /\ call'.ret = c.curThreshold_
            /\ resignThresholdCalculator_' = c
            /\ aborted' = aborted

C21_EmptyWindow ==
    resignThresholdCalculator_.winnerMinValues_ = << >> =>
        resignThresholdCalculator_.curThreshold_ = options_.resign_thres

C21_EarlyReturn == [] C21_EmptyWindow /\ [][C21_EarlyReturnStep]_vars

\* A window of four samples (k = 2, k + 2 = 4), none equal to the threshold,
\* and updateThreshold(0.05) returned the threshold it found.
C21_Witness ==
    LET c == resignThresholdCalculator_
    IN  /\ call.op = "updateThreshold" /\ call.arg = 5
        /\ Len(c.winnerMinValues_) = 4
        /\ call.ret = call.aux
        /\ \A i \in 1..4 : c.winnerMinValues_[i].minValue # c.curThreshold_

(***************************************************************************)
(* The calculator fed games of either winner whose values span [-1, 1],    *)
(* started from a threshold on either side of zero.                        *)
(***************************************************************************)
MaxAssertFed == 5

AssertOptions ==
    { MakeOptions(0, 0, 5, <<1, 2>>, thres, 0, 2 * One) : thres \in {-50, 50} }

AssertRequests == { MakeRequest(0, TRUE, One) }

AssertResults ==
    { MakeResult(reward, TRUE, values, 50) :
        reward \in {One, -One}, values \in { << >>, <<-One, One>>, <<0>> } }

InitAssert == \E o \in AssertOptions :
    OptionsAccepted(o) /\ CtrlInit(o) /\ NoThreads /\ NoSlots

NextAssert ==
    \/ \E request \in AssertRequests, result \in AssertResults :
          /\ resignThresholdCalculator_.numGamesFed_ < MaxAssertFed
          /\ CalculatorFeed(request, result)
          /\ UNCHANGED <<lockVars, batchVars>>
    \/ UpdateThreshold(One) /\ UNCHANGED <<lockVars, batchVars>>

SpecAssert == InitAssert /\ [][NextAssert]_vars

\* Every calibration sample lies in [0, 2] and the assertion of
\* updateThreshold has not failed.
AssertionHolds ==
    /\ ~aborted
    /\ \A i \in DOMAIN resignThresholdCalculator_.winnerMinValues_ :
          LET v == resignThresholdCalculator_.winnerMinValues_[i].minValue
          IN  0 <= v /\ v <= 2 * One

\* C22: with all values in [-1, 1] the assertion of updateThreshold holds and
\* the threshold updateThreshold stores and returns is never negative.
C22_NeverNegative ==
    /\ AssertionHolds
    /\ call.op = "updateThreshold" =>
          /\ call.ret >= 0
          /\ resignThresholdCalculator_.curThreshold_ >= 0

\* The threshold is never negative when the initial threshold is not.
NeverNegativeFromNonNegative ==
    options_.resign_thres >= 0 =>
        resignThresholdCalculator_.curThreshold_ >= 0

(***************************************************************************)
(* Every operation of the controller, from before the first setCurrModel.  *)
(***************************************************************************)
MaxActiveFed == 2

InitActive == \E o \in CtrlOptions :
    OptionsAccepted(o) /\ CtrlInit(o) /\ NoThreads /\ NoSlots

NextActive ==
    \/ \E request \in CtrlRequests, result \in CtrlResults, r \in Records :
          /\ resignThresholdCalculator_.numGamesFed_ < MaxActiveFed
          /\ Feed(request, result, r)
          /\ UNCHANGED <<lockVars, batchVars>>
    \/ \E ver \in Versions :
          SetCurrModel(ver) /\ UNCHANGED <<lockVars, batchVars>>
    \/ \E ver \in Versions :
          NeedWaitForMoreSample(ver) /\ UNCHANGED <<lockVars, batchVars>>
    \/ /\ HasRecord(perfs_, curr_ver_) =>
             perfs_[curr_ver_].num_weight_update_ < MaxWeightUpdates
       /\ NotifyCurrentWeightUpdate
       /\ UNCHANGED <<lockVars, batchVars>>
    \/ FillInRequest(FreshRequest) /\ UNCHANGED <<lockVars, batchVars>>
    \/ GetCurrModel /\ UNCHANGED <<lockVars, batchVars>>
    \/ GetNumSelfplayCurrModel /\ UNCHANGED <<lockVars, batchVars>>

SpecActive == InitActive /\ [][NextActive]_vars

\* C23: records are made only by a setCurrModel that returns true, and after
\* one the active version has a record; so the active version has a record
\* exactly when any record exists.  The assertion of fillInRequest never
\* fails, NOT_REQUESTED and VERSION_INVALID are returned only while no record
\* exists, and getNumSelfplayCurrModel returns 0 exactly when there is no
\* active record or it has no episodes.
C23_ActiveRecord ==
    /\ HasRecord(perfs_, curr_ver_) <=> DOMAIN perfs_ # {}
    /\ aborted => (call.op = "notifyCurrentWeightUpdate" /\ DOMAIN perfs_ = {})
    /\ (call.op = "feed" /\ call.ret = "NOT_REQUESTED") => DOMAIN perfs_ = {}
    /\ (call.op = "needWaitForMoreSample" /\ call.ret = "VERSION_INVALID") =>
          DOMAIN perfs_ = {}
    /\ call.op = "getNumSelfplayCurrModel" =>
          (call.ret = 0 <=>
              \/ DOMAIN perfs_ = {}
              \/ perfs_[curr_ver_].counter_ = 0)

C23_CreationStep ==
    /\ DOMAIN perfs_' # DOMAIN perfs_ =>
          (call'.op = "setCurrModel" /\ call'.ret = TRUE)
    /\ (call'.op = "setCurrModel" /\ call'.ret = TRUE) =>
          HasRecord(perfs_', curr_ver_')

C23_ActiveVersionHasRecord ==
    [] C23_ActiveRecord /\ [][C23_CreationStep]_vars

\* The controller was switched back to version -1, which now has a record,
\* after episodes had been counted, and a request was filled in.
C23_Witness ==
    /\ curr_ver_ = -1
    /\ HasRecord(perfs_, -1)
    /\ total_selfplay_ > 0
    /\ call.op = "fillInRequest"
    /\ ~aborted

\* C24: the calculator's threshold changes only in a setCurrModel that makes
\* a record for a version that had none; the new value is the order statistic
\* limited to the old threshold +- 0.01 and to [minThreshold, maxThreshold],
\* and it is the snapshot of the new record.  So the threshold is the initial
\* one while no record exists, and afterwards the snapshot of a record.
C24_ThresholdStep ==
    LET c   == resignThresholdCalculator_
        old == c.curThreshold_
        new == resignThresholdCalculator_'.curThreshold_
    IN  /\ new # old =>
              /\ call'.op = "setCurrModel" /\ call'.ret = TRUE
              /\ call'.arg \notin DOMAIN perfs_
              /\ new = Min2(Max2(Max2(Min2(OrderStatistic, old + DefaultMaxDelta),
                                      old - DefaultMaxDelta), c.minThreshold_),
                            c.maxThreshold_)
        /\ \A v \in DOMAIN perfs_' \ DOMAIN perfs_ :
              perfs_'[v].resign_threshold_ = new

C24_ThresholdIsASnapshot ==
    IF DOMAIN perfs_ = {}
    THEN resignThresholdCalculator_.curThreshold_ = options_.resign_thres
    ELSE \E v \in DOMAIN perfs_ :
            perfs_[v].resign_threshold_ =
                resignThresholdCalculator_.curThreshold_

C24_ThresholdChangesOnCreation ==
    [] C24_ThresholdIsASnapshot /\ [][C24_ThresholdStep]_vars

\* The second record has just been made and the threshold moved both times.
C24_Witness ==
    /\ call.op = "setCurrModel" /\ call.ret = TRUE
    /\ Cardinality(DOMAIN perfs_) = 2
    /\ perfs_[curr_ver_].resign_threshold_ =
          resignThresholdCalculator_.curThreshold_
    /\ \A v \in DOMAIN perfs_ :
          /\ perfs_[v].resign_threshold_ # options_.resign_thres
          /\ v # curr_ver_ =>
                perfs_[v].resign_threshold_ # perfs_[curr_ver_].resign_threshold_
====
